---- MODULE Spec2Model ----
(***************************************************************************)
(* Model of src/backend/back.js: an Express application over two MongoDB  *)
(* collections (Users, Tasks) with bcrypt password hashes and JWT session  *)
(* tokens.  Every route handler is split at its awaits: the synchronous    *)
(* part that runs when the request arrives (the authenticate middleware    *)
(* and the handler's validation) and one step per awaited store operation. *)
(* Requests whose handler is suspended at an await are kept in inflight;   *)
(* resp is the answer the server sent last, together with its request.     *)
(* The variables marked history record what was answered; no action reads  *)
(* them to decide what the server does.                                    *)
(***************************************************************************)
EXTENDS Integers, Sequences, FiniteSets, TLC

VARIABLES
    Users,      \* the User collection: records [id, username, password]
    Tasks,      \* the Task collection: records [id, text, completed, userId]
    nextTaskId, \* the ObjectId the store generates for the next Task
    clock,      \* Math.floor(Date.now() / 1000), as jsonwebtoken reads it
    dbUp,       \* whether the store answers (mongoose connection usable)
    inflight,   \* requests suspended at an await: records [e, copy]
    resp,       \* the last response sent, with its request (see Answer)
    issued,     \* history: the tokens /login has answered with
    accounts,   \* history: [username, password, id] of each 201 of /register
    acks,       \* history: per username, how many /register answered 201
    createdBy,  \* history: per task id, the user id of the creating token
    fresh,      \* history: per user, the task a Create into an empty list made
    gone        \* history: the task ids a DELETE answered 200 for

vars == <<Users, Tasks, nextTaskId, clock, dbUp, inflight, resp, issued,
          accounts, acks, createdBy, fresh, gone>>

(***************************************************************************)
(* Bounds of the model.                                                    *)
(***************************************************************************)
MaxInFlight == 2
MaxUsers == 2
MaxTasks == 2
MaxTicks == 2
MaxTokens == 2

(***************************************************************************)
(* Program constants.                                                      *)
(***************************************************************************)
SECRET_KEY == "your_secret_key"
ExpiresIn == 3600
SaltRounds == 10

MsgRequired == "Username and password are required"
MsgRegistered == "User registered successfully"
MsgExists == "Username already exists"
MsgRegisterFailed == "Failed to register user"
MsgInvalidLogin == "Invalid username or password"
MsgLoginFailed == "Failed to log in"
MsgNoToken == "Access denied. No token provided."
MsgInvalidToken == "Invalid token"
MsgFetchFailed == "Failed to fetch tasks"
MsgTextRequired == "Task text is required"
MsgAddFailed == "Failed to add task"
MsgNotFound == "Task not found"
MsgDeleted == "Task deleted successfully"
MsgDeleteFailed == "Failed to delete task"
NoMsg == ""

(***************************************************************************)
(* JSON values of a request body.  A field is a string, or absent          *)
(* (undefined), or a value that is not a string (the number 123).          *)
(***************************************************************************)
Undefined == "<undefined>"
ANumber == "<number 123>"
Falsy(v) == v \in {Undefined, ""}
IsString(v) == v \notin {Undefined, ANumber}

Usernames == {"alice", "bob"}
GoodPasswords == {"pw1", "pw2"}
UserIds == 1..MaxUsers
TaskIds == 1..MaxTasks

(***************************************************************************)
(* bcryptjs.  hash(s, rounds) rejects a non-string s; otherwise the hash   *)
(* carries its salt and a digest of salt and password.  compare(s, hash)   *)
(* rejects a non-string s, and otherwise recomputes the digest with the    *)
(* salt read from the hash.                                                *)
(***************************************************************************)
HashThrows(s) == ~IsString(s)
Hash(s, salt) == [rounds |-> SaltRounds, salt |-> salt, digest |-> <<salt, s>>]
CompareThrows(s, hash) == ~IsString(s)
Compare(s, hash) == hash.digest = <<hash.salt, s>>

(***************************************************************************)
(* jsonwebtoken.  A token is a payload and an HMAC of it under a key.      *)
(* The Authorization header is absent, or a string: a prefix followed by   *)
(* a token.  verify(string, key) throws unless the string is a JWS (three  *)
(* base64url segments, so nothing before the token), the signature is the  *)
(* HMAC of the payload under key, and the clock is before exp.             *)
(***************************************************************************)
Hmac(payload, key) == <<key, payload>>
JwtSign(uid, key, now) ==
    LET payload == [userId |-> uid, iat |-> now, exp |-> now + ExpiresIn]
    IN  [payload |-> payload, sig |-> Hmac(payload, key)]
NoJwt == [payload |-> [userId |-> 0, iat |-> 0, exp |-> 0], sig |-> <<>>]
NoHeader == [present |-> FALSE, prefix |-> "", jwt |-> NoJwt]
Raw(t) == [present |-> TRUE, prefix |-> "", jwt |-> t]
Bearer(t) == [present |-> TRUE, prefix |-> "Bearer ", jwt |-> t]

JwtVerifyLax(h, key, now) ==
    /\ h.jwt.sig = Hmac(h.jwt.payload, key)
    /\ now < h.jwt.payload.exp
JwtVerifyNoExpiry(h, key, now) ==
    /\ h.prefix = ""
    /\ h.jwt.sig = Hmac(h.jwt.payload, key)
JwtVerifyNoSignature(h, key, now) ==
    /\ h.prefix = ""
    /\ now < h.jwt.payload.exp
JwtVerify(h, key, now) ==
    /\ h.prefix = ""
    /\ h.jwt.sig = Hmac(h.jwt.payload, key)
    /\ now < h.jwt.payload.exp

(***************************************************************************)
(* Requests and responses.                                                 *)
(***************************************************************************)
NoPath == [oid |-> FALSE, n |-> 0]
Oid(n) == [oid |-> TRUE, n |-> n]
NotAnOid == [oid |-> FALSE, n |-> 0]

Request(op, hdr, username, password, path, text, completed) ==
    [op |-> op, hdr |-> hdr, username |-> username, password |-> password,
     path |-> path, text |-> text, completed |-> completed]
RegisterReq(u, p) == Request("register", NoHeader, u, p, NoPath, Undefined, FALSE)
LoginReq(u, p) == Request("login", NoHeader, u, p, NoPath, Undefined, FALSE)
ListReq(h) == Request("list", h, Undefined, Undefined, NoPath, Undefined, FALSE)
CreateReq(h, text, c) == Request("create", h, Undefined, Undefined, NoPath, text, c)
DeleteReq(h, path) == Request("delete", h, Undefined, Undefined, path, Undefined, FALSE)
NoReq == Request("none", NoHeader, Undefined, Undefined, NoPath, Undefined, FALSE)

NoHash == [rounds |-> 0, salt |-> "", digest |-> <<>>]
Entry(req, pc, userId, user, hashed, known) ==
    [req |-> req, pc |-> pc, userId |-> userId, user |-> user,
     hashed |-> hashed, known |-> known]

\* inflight is a multiset: the copies of an entry are numbered 1, 2, ...
Copies(e) == Cardinality({x \in inflight : x.e = e})
Top(x) == x.copy = Copies(x.e)
Suspend(S, e) ==
    S \cup {[e |-> e, copy |-> Cardinality({x \in S : x.e = e}) + 1]}
Resume(x) == inflight \ {x}

\* res.status(status).json(...): msg is the message or error of the body,
\* token the token of a /login body, tasks the task documents of a /tasks
\* body.  known and up are history: the 201s of /register that had answered
\* the request's credentials when it arrived, and whether the store was
\* reachable when the answer was sent.
Answer(req, status, msg, token, tasks, known) ==
    resp' = [req |-> req, status |-> status, msg |-> msg, token |-> token,
             tasks |-> tasks, known |-> known, up |-> dbUp]

Store == <<Users, Tasks, nextTaskId>>
History == <<issued, accounts, acks, createdBy, fresh, gone>>

(***************************************************************************)
(* The store's part of each operation.                                     *)
(***************************************************************************)
\* The unique index on username: an insert of a present username fails
\* with E11000.
DuplicateKeyNever(users, username) == FALSE
DuplicateKey(users, username) == \E u \in users : u.username = username

\* The _id the store gives a new User: none is ever deleted.
NewUserId == Cardinality(Users) + 1

\* User.findOne({ username })
FindOneUser(users, username) == {u \in users : u.username = username}

\* Task.find({ userId })
FindTasks(tasks, userId) == {t \in tasks : t.userId = userId}

\* new Task({ text, userId }): completed takes the schema's default.
NewTaskFromBody(id, req, userId) ==
    [id |-> id, text |-> req.text, completed |-> req.completed, userId |-> userId]
NewTask(id, req, userId) ==
    [id |-> id, text |-> req.text, completed |-> FALSE, userId |-> userId]

\* The filter of Task.findOneAndDelete({ _id, userId }); _id was cast.
DeleteFilterById(tasks, id, userId) == {t \in tasks : t.id = id}
DeleteFilter(tasks, id, userId) ==
    {t \in tasks : t.id = id /\ t.userId = userId}
\* findOneAndDelete removes one matching document.
DeleteAllOfOwner(tasks, match, userId) == {t \in tasks : t.userId # userId}
DeleteOne(tasks, match, userId) == tasks \ match

\* Casting req.params.id to ObjectId throws a CastError unless the string
\* is an ObjectId.
CastThrows(path) == ~path.oid

(***************************************************************************)
(* POST /register                                                          *)
(***************************************************************************)
Register(u, p, salt) ==
    LET req == RegisterReq(u, p) IN
    /\ IF Falsy(u) \/ Falsy(p)
       THEN /\ Answer(req, 400, MsgRequired, {}, {}, {})
            /\ UNCHANGED inflight
       ELSE IF HashThrows(p)
       THEN /\ Answer(req, 500, MsgRegisterFailed, {}, {}, {})
            /\ UNCHANGED inflight
       ELSE /\ Cardinality(inflight) < MaxInFlight
            /\ inflight' = Suspend(inflight,
                              Entry(req, "save", 0, {}, Hash(p, salt), {}))
            /\ UNCHANGED resp
    /\ UNCHANGED <<Store, clock, dbUp, History>>

RegisterSave(x) ==
    LET req == x.e.req IN
    /\ x \in inflight /\ Top(x) /\ x.e.pc = "save"
    /\ inflight' = Resume(x)
    /\ IF ~dbUp
       THEN /\ Answer(req, 500, MsgRegisterFailed, {}, {}, {})
            /\ UNCHANGED <<Users, accounts, acks>>
       ELSE IF DuplicateKey(Users, req.username)
       THEN /\ Answer(req, 400, MsgExists, {}, {}, {})
            /\ UNCHANGED <<Users, accounts, acks>>
       ELSE /\ Cardinality(Users) < MaxUsers
            /\ Users' = Users \cup {[id |-> NewUserId, username |-> req.username,
                                     password |-> x.e.hashed]}
            /\ Answer(req, 201, MsgRegistered, {}, {}, {})
            /\ accounts' = accounts \cup {[username |-> req.username,
                                          password |-> req.password,
                                          id |-> NewUserId]}
            /\ acks' = [acks EXCEPT ![req.username] = @ + 1]
    /\ UNCHANGED <<Tasks, nextTaskId, clock, dbUp, issued, createdBy, fresh, gone>>

(***************************************************************************)
(* POST /login                                                             *)
(***************************************************************************)
Login(u, p) ==
    LET req == LoginReq(u, p) IN
    /\ IF Falsy(u) \/ Falsy(p)
       THEN /\ Answer(req, 400, MsgRequired, {}, {}, {})
            /\ UNCHANGED inflight
       ELSE /\ Cardinality(inflight) < MaxInFlight
            /\ inflight' = Suspend(inflight,
                  Entry(req, "findOne", 0, {}, NoHash,
                        {a \in accounts : a.username = u /\ a.password = p}))
            /\ UNCHANGED resp
    /\ UNCHANGED <<Store, clock, dbUp, History>>

LoginFindOne(x) ==
    LET req == x.e.req
        user == FindOneUser(Users, req.username)
    IN
    /\ x \in inflight /\ Top(x) /\ x.e.pc = "findOne"
    /\ IF ~dbUp
       THEN /\ Answer(req, 500, MsgLoginFailed, {}, {}, x.e.known)
            /\ inflight' = Resume(x)
       ELSE IF user = {}
       THEN /\ Answer(req, 401, MsgInvalidLogin, {}, {}, x.e.known)
            /\ inflight' = Resume(x)
       ELSE /\ inflight' = Suspend(Resume(x), [x.e EXCEPT !.pc = "compare",
                                                          !.user = user])
            /\ UNCHANGED resp
    /\ UNCHANGED <<Store, clock, dbUp, History>>

\* The token jwt.sign makes for a user record.
LoginTokenOfFirstUser(user, now) == JwtSign(1, SECRET_KEY, now)
LoginToken(user, now) == JwtSign(user.id, SECRET_KEY, now)

LoginCompare(x) ==
    LET req == x.e.req IN
    /\ x \in inflight /\ Top(x) /\ x.e.pc = "compare"
    /\ inflight' = Resume(x)
    /\ \E user \in x.e.user :
         IF CompareThrows(req.password, user.password)
         THEN /\ Answer(req, 500, MsgLoginFailed, {}, {}, x.e.known)
              /\ UNCHANGED issued
         ELSE IF ~Compare(req.password, user.password)
         THEN /\ Answer(req, 401, MsgInvalidLogin, {}, {}, x.e.known)
              /\ UNCHANGED issued
         ELSE LET token == LoginToken(user, clock) IN
              /\ Cardinality(issued \cup {token}) <= MaxTokens
              /\ Answer(req, 200, NoMsg, {token}, {}, x.e.known)
              /\ issued' = issued \cup {token}
    /\ UNCHANGED <<Store, clock, dbUp, accounts, acks, createdBy, fresh, gone>>

(***************************************************************************)
(* authenticate: the middleware in front of the three /tasks routes.       *)
(* It answers 401 itself, or sets req.userId and calls the handler.        *)
(***************************************************************************)
AuthRejects(h) == ~h.present \/ ~JwtVerify(h, SECRET_KEY, clock)
AuthMessage(h) == IF ~h.present THEN MsgNoToken ELSE MsgInvalidToken
AuthUserId(h) == h.jwt.payload.userId

(***************************************************************************)
(* GET /tasks                                                              *)
(***************************************************************************)
GetTasks(h) ==
    LET req == ListReq(h) IN
    /\ IF AuthRejects(h)
       THEN /\ Answer(req, 401, AuthMessage(h), {}, {}, {})
            /\ UNCHANGED inflight
       ELSE /\ Cardinality(inflight) < MaxInFlight
            /\ inflight' = Suspend(inflight,
                              Entry(req, "find", AuthUserId(h), {}, NoHash, {}))
            /\ UNCHANGED resp
    /\ UNCHANGED <<Store, clock, dbUp, History>>

Find(x) ==
    LET req == x.e.req IN
    /\ x \in inflight /\ Top(x) /\ x.e.pc = "find"
    /\ inflight' = Resume(x)
    /\ IF ~dbUp
       THEN Answer(req, 500, MsgFetchFailed, {}, {}, {})
       ELSE Answer(req, 200, NoMsg, {}, FindTasks(Tasks, x.e.userId), {})
    /\ UNCHANGED <<Store, clock, dbUp, History>>

(***************************************************************************)
(* POST /tasks                                                             *)
(***************************************************************************)
Saving == Cardinality({x \in inflight : x.e.pc = "saveTask"})

PostTasks(h, text, completed) ==
    LET req == CreateReq(h, text, completed) IN
    /\ IF AuthRejects(h)
       THEN /\ Answer(req, 401, AuthMessage(h), {}, {}, {})
            /\ UNCHANGED inflight
       ELSE IF Falsy(text)
       THEN /\ Answer(req, 400, MsgTextRequired, {}, {}, {})
            /\ UNCHANGED inflight
       ELSE /\ Cardinality(inflight) < MaxInFlight
            /\ nextTaskId + Saving <= MaxTasks
            /\ inflight' = Suspend(inflight,
                              Entry(req, "saveTask", AuthUserId(h), {}, NoHash, {}))
            /\ UNCHANGED resp
    /\ UNCHANGED <<Store, clock, dbUp, History>>

\* The tasks in the store that were created with a token issued to owner.
CreatedWith(tasks, owner) ==
    {t \in tasks : [id |-> t.id, userId |-> owner] \in createdBy}

SaveTask(x) ==
    LET req == x.e.req
        owner == req.hdr.jwt.payload.userId
        task == NewTask(nextTaskId, req, x.e.userId)
    IN
    /\ x \in inflight /\ Top(x) /\ x.e.pc = "saveTask"
    /\ inflight' = Resume(x)
    /\ IF ~dbUp
       THEN /\ Answer(req, 500, MsgAddFailed, {}, {}, {})
            /\ UNCHANGED <<Tasks, nextTaskId, createdBy, fresh>>
       ELSE /\ Tasks' = Tasks \cup {task}
            /\ nextTaskId' = nextTaskId + 1
            /\ Answer(req, 201, NoMsg, {}, {task}, {})
            /\ createdBy' = createdBy \cup {[id |-> nextTaskId, userId |-> owner]}
            /\ fresh' = {f \in fresh : f.userId # owner} \cup
                        (IF CreatedWith(Tasks, owner) = {}
                         THEN {[userId |-> owner, id |-> task.id,
                                text |-> req.text, sent |-> req.completed]}
                         ELSE {})
    /\ UNCHANGED <<Users, clock, dbUp, issued, accounts, acks, gone>>

(***************************************************************************)
(* DELETE /tasks/:id                                                       *)
(***************************************************************************)
DeleteTasks(h, path) ==
    LET req == DeleteReq(h, path) IN
    /\ IF AuthRejects(h)
       THEN /\ Answer(req, 401, AuthMessage(h), {}, {}, {})
            /\ UNCHANGED inflight
       ELSE /\ Cardinality(inflight) < MaxInFlight
            /\ inflight' = Suspend(inflight,
                  Entry(req, "findOneAndDelete", AuthUserId(h), {}, NoHash, {}))
            /\ UNCHANGED resp
    /\ UNCHANGED <<Store, clock, dbUp, History>>

FindOneAndDelete(x) ==
    LET req == x.e.req
        owner == req.hdr.jwt.payload.userId
        match == DeleteFilter(Tasks, req.path.n, x.e.userId)
    IN
    /\ x \in inflight /\ Top(x) /\ x.e.pc = "findOneAndDelete"
    /\ inflight' = Resume(x)
    /\ IF ~dbUp \/ CastThrows(req.path)
       THEN /\ Answer(req, 500, MsgDeleteFailed, {}, {}, {})
            /\ UNCHANGED <<Tasks, fresh, gone>>
       ELSE IF match = {}
       THEN /\ Answer(req, 404, MsgNotFound, {}, {}, {})
            /\ UNCHANGED <<Tasks, fresh, gone>>
       ELSE /\ Tasks' = DeleteOne(Tasks, match, x.e.userId)
            /\ Answer(req, 200, MsgDeleted, {}, {}, {})
            /\ fresh' = {f \in fresh : f.userId # owner}
            /\ gone' = gone \cup {req.path.n}
    /\ UNCHANGED <<Users, nextTaskId, clock, dbUp, issued, accounts, acks,
                   createdBy>>

(***************************************************************************)
(* The environment: time passes; the store goes away and comes back.       *)
(***************************************************************************)
Ticks(c) == (c \div (ExpiresIn - 1)) + (c % (ExpiresIn - 1))
Tick(d) ==
    /\ Ticks(clock + d) <= MaxTicks
    /\ clock' = clock + d
    /\ UNCHANGED <<Store, dbUp, inflight, resp, History>>

StoreDown ==
    /\ dbUp
    /\ dbUp' = FALSE
    /\ UNCHANGED <<Store, clock, inflight, resp, History>>

StoreUp ==
    /\ ~dbUp
    /\ dbUp' = TRUE
    /\ UNCHANGED <<Store, clock, inflight, resp, History>>

(***************************************************************************)
(* What a client can send.                                                 *)
(***************************************************************************)
\* What an attacker makes of a token it has seen: the same payload signed
\* with another key, and the payload changed to name another user under
\* the old signature.
Forged ==
    {[payload |-> t.payload, sig |-> Hmac(t.payload, "not_the_secret")] :
        t \in issued} \cup
    UNION {{[payload |-> [t.payload EXCEPT !.userId = u], sig |-> t.sig] :
               u \in UserIds \ {t.payload.userId}} : t \in issued}
Tokens == {Raw(t) : t \in issued}
Headers ==
    {NoHeader} \cup Tokens \cup {Raw(t) : t \in Forged}
               \cup {Bearer(t) : t \in issued}
Paths == {Oid(n) : n \in TaskIds} \cup {NotAnOid}
\* Bodies of POST /register and POST /login: <<username, password>>.
Credentials ==
    (Usernames \X (GoodPasswords \cup {"", ANumber})) \cup {<<"", "pw1">>}
\* Bodies of POST /tasks: <<text, completed>>.
Bodies == {<<"x", FALSE>>, <<"y", TRUE>>, <<"", FALSE>>}

Init ==
    /\ Users = {}
    /\ Tasks = {}
    /\ nextTaskId = 1
    /\ clock = 0
    /\ dbUp = TRUE
    /\ inflight = {}
    /\ resp = [req |-> NoReq, status |-> 0, msg |-> NoMsg, token |-> {},
               tasks |-> {}, known |-> {}, up |-> TRUE]
    /\ issued = {}
    /\ accounts = {}
    /\ acks = [u \in Usernames |-> 0]
    /\ createdBy = {}
    /\ fresh = {}
    /\ gone = {}

(***************************************************************************)
(* Spec: the whole API from an empty store, the store reachable and no     *)
(* token old enough to expire.  Clients register and log in with valid     *)
(* credentials, one such request at a time, and send the task routes a     *)
(* token /login gave them.                                                 *)
(***************************************************************************)
Next ==
    \/ \E u \in Usernames : inflight = {} /\ Register(u, "pw1", "saltA")
    \/ \E x \in inflight : RegisterSave(x)
    \/ \E u \in Usernames : inflight = {} /\ Login(u, "pw1")
    \/ \E x \in inflight : LoginFindOne(x)
    \/ \E x \in inflight : LoginCompare(x)
    \/ \E h \in Tokens : GetTasks(h)
    \/ \E x \in inflight : Find(x)
    \/ \E h \in Tokens : PostTasks(h, "x", FALSE)
    \/ \E x \in inflight : SaveTask(x)
    \/ \E h \in Tokens, n \in TaskIds : DeleteTasks(h, Oid(n))
    \/ \E x \in inflight : FindOneAndDelete(x)

Spec == Init /\ [][Next]_vars

(***************************************************************************)
(* SpecTasks: the task routes with every kind of body and path, from the   *)
(* state Spec is in once alice and bob have registered and logged in.      *)
(***************************************************************************)
Alice == [id |-> 1, username |-> "alice", password |-> Hash("pw1", "saltA")]
Bob == [id |-> 2, username |-> "bob", password |-> Hash("pw1", "saltA")]
AccountOf(user) == [username |-> user.username, password |-> "pw1", id |-> user.id]

Enrolled ==
    /\ Users = {Alice, Bob}
    /\ Tasks = {}
    /\ nextTaskId = 1
    /\ clock = 0
    /\ dbUp = TRUE
    /\ inflight = {}
    /\ resp = [req |-> LoginReq("bob", "pw1"), status |-> 200, msg |-> NoMsg,
               token |-> {LoginToken(Bob, 0)}, tasks |-> {},
               known |-> {AccountOf(Bob)}, up |-> TRUE]
    /\ issued = {LoginToken(Alice, 0), LoginToken(Bob, 0)}
    /\ accounts = {AccountOf(Alice), AccountOf(Bob)}
    /\ acks = [u \in Usernames |-> 1]
    /\ createdBy = {}
    /\ fresh = {}
    /\ gone = {}

NextTasks ==
    \/ \E h \in Tokens : GetTasks(h)
    \/ \E x \in inflight : Find(x)
    \/ \E h \in Tokens, b \in Bodies : PostTasks(h, b[1], b[2])
    \/ \E x \in inflight : SaveTask(x)
    \/ \E h \in Tokens, path \in Paths : DeleteTasks(h, path)
    \/ \E x \in inflight : FindOneAndDelete(x)

SpecTasks == Enrolled /\ [][NextTasks]_vars

(***************************************************************************)
(* SpecIdentity: /register and /login alone, with every kind of input.     *)
(***************************************************************************)
NextIdentity ==
    \/ \E c \in Credentials : Register(c[1], c[2], "saltA")
    \/ \E x \in inflight : RegisterSave(x)
    \/ \E c \in Credentials : Login(c[1], c[2])
    \/ \E x \in inflight : LoginFindOne(x)
    \/ \E x \in inflight : LoginCompare(x)

SpecIdentity == Init /\ [][NextIdentity]_vars

(***************************************************************************)
(* SpecGate: one user and one client, which waits for each answer before   *)
(* its next request and sends every kind of Authorization header, while    *)
(* time passes and the store goes away and comes back.                     *)
(***************************************************************************)
NextGate ==
    \/ inflight = {} /\ Register("alice", "pw1", "saltA")
    \/ \E x \in inflight : RegisterSave(x)
    \/ inflight = {} /\ Login("alice", "pw1")
    \/ \E x \in inflight : LoginFindOne(x)
    \/ \E x \in inflight : LoginCompare(x)
    \/ \E h \in Headers : inflight = {} /\ GetTasks(h)
    \/ \E x \in inflight : Find(x)
    \/ \E h \in Headers : inflight = {} /\ PostTasks(h, "x", FALSE)
    \/ \E x \in inflight : SaveTask(x)
    \/ \E h \in Headers : inflight = {} /\ DeleteTasks(h, Oid(1))
    \/ \E x \in inflight : FindOneAndDelete(x)
    \/ \E d \in {1, ExpiresIn - 1} : Tick(d)
    \/ StoreDown
    \/ StoreUp

SpecGate == Init /\ [][NextGate]_vars

(***************************************************************************)
(* Vocabulary of the properties.                                           *)
(***************************************************************************)
OneHour == 3600
Protected == {"list", "create", "delete"}

\* A step in which the server answers the request it receives, and one in
\* which it answers a suspended request: resp' is the answer.
AnswersNow == clock' = clock /\ dbUp' = dbUp /\ inflight' = inflight
Completes == Cardinality(inflight') < Cardinality(inflight)
\* The task-route requests the gate lets through to their handler in a step.
Admitted ==
    {x \in inflight' \ inflight :
        x.e.pc \in {"find", "saveTask", "findOneAndDelete"}}

\* The header is, literally, a token /login answered with; the user it was
\* issued to; its age.
Genuine(h) == h.present /\ h.prefix = "" /\ h.jwt \in issued
IssuedTo(h) == h.jwt.payload.userId
Expired(h, now) == now >= h.jwt.payload.iat + OneHour
BadlySigned(h) == h.present /\ h.jwt.sig # Hmac(h.jwt.payload, SECRET_KEY)
CreatedByOther(id, a) == \E c \in createdBy : c.id = id /\ c.userId # a
CreatedBySelf(id, a) == [id |-> id, userId |-> a] \in createdBy

(***************************************************************************)
(* C1.  Owner isolation.  A GET /tasks answered for a token issued to A    *)
(* returns only tasks created with a token issued to A; a DELETE           *)
(* /tasks/:id with A's token on the id of a stored task that was created   *)
(* with another user's token answers 404 and leaves that task in the       *)
(* store.                                                                  *)
(***************************************************************************)
C1Step ==
    (Completes /\ Genuine(resp'.req.hdr)) =>
        LET a == IssuedTo(resp'.req.hdr) IN
        /\ (resp'.req.op = "list" /\ resp'.status = 200) =>
              \A t \in resp'.tasks : CreatedBySelf(t.id, a)
        /\ (resp'.req.op = "delete" /\ resp'.req.path.oid) =>
              \A t \in Tasks :
                 (t.id = resp'.req.path.n /\ CreatedByOther(t.id, a)) =>
                     resp'.status = 404 /\ t \in Tasks'
\* C1: every step keeps owner isolation.
C1OwnerIsolation == [][C1Step]_vars

\* C1: A's DELETE of a stored task of B was answered 404, A owning a task too.
C1Witness ==
    /\ resp.req.op = "delete" /\ resp.status = 404
    /\ Genuine(resp.req.hdr) /\ resp.req.path.oid
    /\ \E t \in Tasks : /\ t.id = resp.req.path.n
                        /\ CreatedByOther(t.id, IssuedTo(resp.req.hdr))
    /\ \E t \in Tasks : CreatedBySelf(t.id, IssuedTo(resp.req.hdr))

(***************************************************************************)
(* C2.  Expiry.  The gate lets a request with a token of /login through    *)
(* only while less than one hour has passed since the token was issued; a  *)
(* request to a task route that arrives with such a token an hour or more  *)
(* after its issuance is answered 401 and the store is left unchanged.     *)
(***************************************************************************)
C2Step ==
    /\ \A x \in Admitted :
          Genuine(x.e.req.hdr) => ~Expired(x.e.req.hdr, clock)
    /\ (AnswersNow /\ resp'.req.op \in Protected /\ Genuine(resp'.req.hdr)) =>
          IF Expired(resp'.req.hdr, clock)
          THEN /\ resp'.status = 401
               /\ Users' = Users /\ Tasks' = Tasks
          ELSE resp'.status # 401
\* C2: every step rejects a token an hour old or older and admits no such.
C2Expiry == [][C2Step]_vars

\* C2: a DELETE of the owner's stored task, sent exactly an hour after the
\* token was issued, was answered 401.
C2Witness ==
    /\ resp.req.op = "delete" /\ resp.status = 401
    /\ Genuine(resp.req.hdr)
    /\ clock = resp.req.hdr.jwt.payload.iat + OneHour
    /\ \E t \in Tasks : t.id = resp.req.path.n /\ t.userId = IssuedTo(resp.req.hdr)

(***************************************************************************)
(* C3, as claimed.  At most one /register per username answers 201, the    *)
(* Users collection holds at most one record per username, and once a      *)
(* username is registered every other /register carrying it, whatever its  *)
(* password, answers 400 "Username already exists".                        *)
(***************************************************************************)
UniqueUsernames ==
    /\ \A u \in Usernames : acks[u] <= 1
    /\ \A a, b \in Users : a.username = b.username => a = b
\* C3 as claimed: unique usernames, and every other /register answers
\* 400 "Username already exists".
C3AsClaimed ==
    /\ UniqueUsernames
    /\ (/\ resp.req.op = "register" /\ resp.req.username \in Usernames
        /\ resp.status # 201 /\ acks[resp.req.username] >= 1) =>
           resp.status = 400 /\ resp.msg = MsgExists

(***************************************************************************)
(* C3, amended.  At most one /register per username answers 201 and the    *)
(* Users collection holds at most one record per username; every other     *)
(* /register carrying the username answers 400 "Username already exists"   *)
(* when its password is a non-empty string, 400 "Username and password     *)
(* are required" when its password is missing or empty, and 500 "Failed    *)
(* to register user" when its password is not a string.                    *)
(***************************************************************************)
\* C3 amended: unique usernames, and the answer of every other /register
\* by the kind of its password.
C3UniqueUsername ==
    /\ UniqueUsernames
    /\ (/\ resp.req.op = "register" /\ resp.req.username \in Usernames
        /\ resp.status # 201) =>
           IF Falsy(resp.req.password)
           THEN resp.status = 400 /\ resp.msg = MsgRequired
           ELSE IF ~IsString(resp.req.password)
           THEN resp.status = 500 /\ resp.msg = MsgRegisterFailed
           ELSE /\ resp.status = 400 /\ resp.msg = MsgExists
                /\ acks[resp.req.username] = 1

\* C3: a /register of a taken username with another password was answered
\* 400 "Username already exists" while a third one is suspended at its save.
C3Witness ==
    /\ resp.req.op = "register" /\ resp.status = 400 /\ resp.msg = MsgExists
    /\ \E a \in accounts : /\ a.username = resp.req.username
                           /\ a.password # resp.req.password
    /\ \E x \in inflight : /\ x.e.pc = "save"
                           /\ x.e.req.username = resp.req.username

(***************************************************************************)
(* C4.  A /login that arrives after a /register with the same non-empty    *)
(* username and password answered 201 answers 200 with a token, signed     *)
(* with the server's key, whose userId is the id of the record that        *)
(* /register created.                                                      *)
(***************************************************************************)
\* C4: /register answered 201, then /login with the same credentials
\* answers 200 with a token for the created record.
C4RegisterThenLogin ==
    (resp.req.op = "login" /\ resp.known # {}) =>
        /\ resp.status = 200
        /\ Cardinality(resp.token) = 1
        /\ \A t \in resp.token, a \in resp.known :
              /\ t.payload.userId = a.id
              /\ t.sig = Hmac(t.payload, SECRET_KEY)
              /\ \E u \in Users : u.id = a.id /\ u.username = resp.req.username

\* C4: the second user registered logged in with the password "pw2".
C4Witness ==
    /\ resp.req.op = "login" /\ resp.status = 200
    /\ \E a \in resp.known : a.id = 2 /\ a.password = "pw2"
    /\ Cardinality(Users) = 2

(***************************************************************************)
(* C5.  A /login with non-empty username and password that match no        *)
(* registered account, whether the username is registered or not, answers  *)
(* 401 "Invalid username or password" and no token.                        *)
(***************************************************************************)
NoSuchAccount(req) ==
    ~\E a \in accounts : a.username = req.username /\ a.password = req.password
\* C5: /login with credentials of no account answers the one 401.
C5NoLeak ==
    (/\ resp.req.op = "login"
     /\ ~Falsy(resp.req.username) /\ ~Falsy(resp.req.password)
     /\ NoSuchAccount(resp.req)) =>
        resp.status = 401 /\ resp.msg = MsgInvalidLogin /\ resp.token = {}

(***************************************************************************)
(* C6.  A DELETE /tasks/:id by an authenticated user whose :id names no    *)
(* stored task (one deleted before, or none at all) answers 404 and        *)
(* leaves the store unchanged, on every call.                              *)
(***************************************************************************)
NamesNoTask(path) == ~\E t \in Tasks : path.oid /\ t.id = path.n
C6Step ==
    (/\ Completes /\ resp'.req.op = "delete" /\ Genuine(resp'.req.hdr)
     /\ NamesNoTask(resp'.req.path)) =>
        resp'.status = 404 /\ Tasks' = Tasks /\ Users' = Users
\* C6: every DELETE of an id that names no task answers 404 and changes
\* nothing.
C6DeleteAbsent == [][C6Step]_vars

(***************************************************************************)
(* C7.  Create-List round trip.  When a POST /tasks by an owner with no    *)
(* tasks has answered 201 and no later POST or DELETE of that owner has    *)
(* changed the store, a GET /tasks of the owner returns exactly one task:  *)
(* its id is the one the 201 carried, its text the text submitted, and     *)
(* its completed false, whatever completed the POST body carried.          *)
(***************************************************************************)
\* C7: GET /tasks after a Create into an empty list returns that one task.
C7RoundTrip ==
    (resp.req.op = "list" /\ resp.status = 200 /\ Genuine(resp.req.hdr)) =>
        \A f \in fresh :
           f.userId = IssuedTo(resp.req.hdr) =>
              /\ Cardinality(resp.tasks) = 1
              /\ \A t \in resp.tasks :
                    t.id = f.id /\ t.text = f.text /\ t.completed = FALSE

\* C7: the list was answered after a Create whose body carried completed:
\* true, another owner's task being in the store.
C7Witness ==
    /\ resp.req.op = "list" /\ resp.status = 200
    /\ \E f \in fresh : /\ f.userId = IssuedTo(resp.req.hdr)
                        /\ f.sent = TRUE
                        /\ \E t \in resp.tasks : t.id = f.id
    /\ Cardinality(Tasks) = 2

(***************************************************************************)
(* C8.  The credential gate.  A request to a task route with no            *)
(* Authorization header is answered 401 "Access denied. No token           *)
(* provided." and one with a badly signed token 401 "Invalid token";       *)
(* neither reaches its handler, and Users and Tasks are unchanged;         *)
(* whether the store is reachable or not.                                  *)
(***************************************************************************)
C8Step ==
    /\ \A x \in Admitted :
          x.e.req.hdr.present /\ ~BadlySigned(x.e.req.hdr)
    /\ (AnswersNow /\ resp'.req.op \in Protected) =>
          /\ ~resp'.req.hdr.present =>
                /\ resp'.status = 401 /\ resp'.msg = MsgNoToken
                /\ Users' = Users /\ Tasks' = Tasks
          /\ BadlySigned(resp'.req.hdr) =>
                /\ resp'.status = 401 /\ resp'.msg = MsgInvalidToken
                /\ Users' = Users /\ Tasks' = Tasks
\* C8: every step of the gate rejects a missing or badly signed token.
C8Gate == [][C8Step]_vars

\* C8: a badly signed DELETE was answered 401 while the store was
\* unreachable, users and tasks being stored.
C8Witness ==
    /\ resp.req.op = "delete" /\ BadlySigned(resp.req.hdr)
    /\ resp.status = 401 /\ resp.msg = MsgInvalidToken
    /\ ~resp.up
    /\ Users # {} /\ Tasks # {}

(***************************************************************************)
(* C9.  The literal header is the credential.  The gate lets a request     *)
(* through only when its Authorization header is exactly a token /login    *)
(* answered with, less than an hour old; such a token sent after the       *)
(* prefix "Bearer " is answered 401 "Invalid token".                       *)
(***************************************************************************)
C9Step ==
    /\ \A x \in Admitted :
          Genuine(x.e.req.hdr) /\ ~Expired(x.e.req.hdr, clock)
    /\ (/\ AnswersNow /\ resp'.req.op \in Protected
        /\ resp'.req.hdr.present /\ resp'.req.hdr.prefix = "Bearer "
        /\ resp'.req.hdr.jwt \in issued) =>
          resp'.status = 401 /\ resp'.msg = MsgInvalidToken
\* C9: every step admits only literal, fresh tokens of /login and rejects
\* a "Bearer " prefix.
C9LiteralHeader == [][C9Step]_vars

\* C9: a GET /tasks with "Bearer " before a fresh token of /login was
\* answered 401 "Invalid token", the store reachable.
C9Witness ==
    /\ resp.req.op = "list" /\ resp.status = 401 /\ resp.msg = MsgInvalidToken
    /\ resp.req.hdr.prefix = "Bearer " /\ resp.req.hdr.jwt \in issued
    /\ ~Expired(resp.req.hdr, clock)
    /\ resp.up

(***************************************************************************)
(* C10.  A DELETE /tasks/:id that answers 200 removes exactly the task     *)
(* with that id, which the requesting user created, and leaves every       *)
(* other task and every user as they were.  Of the DELETEs of one task by  *)
(* its owner, in any interleaving, exactly one answers 200: the first to   *)
(* reach the store; every later one answers 404 and changes nothing.       *)
(***************************************************************************)
C10Step ==
    (/\ Completes /\ resp'.req.op = "delete" /\ Genuine(resp'.req.hdr)
     /\ resp'.req.path.oid) =>
        LET n == resp'.req.path.n
            a == IssuedTo(resp'.req.hdr)
            own == {t \in Tasks : t.id = n /\ CreatedBySelf(n, a)}
        IN  /\ resp'.status = 200 =>
                 /\ Cardinality(own) = 1 /\ n \notin gone
                 /\ Tasks' = Tasks \ own /\ Users' = Users
            /\ own # {} => resp'.status = 200
            /\ n \in gone => resp'.status = 404 /\ Tasks' = Tasks
\* C10: every step that answers a DELETE keeps the frame and the order.
C10DeleteFrame == [][C10Step]_vars

\* C10: the owner's DELETE of a task an earlier DELETE removed was answered
\* 404 while an identical DELETE is suspended and other tasks are stored.
C10Witness ==
    /\ resp.req.op = "delete" /\ resp.status = 404
    /\ resp.req.path.oid /\ resp.req.path.n \in gone
    /\ CreatedBySelf(resp.req.path.n, IssuedTo(resp.req.hdr))
    /\ Tasks # {}
    /\ \E x \in inflight : x.e.req = resp.req

====
